---- MODULE Spec2Model ----
(***************************************************************************)
(* Model of BotService (src/src/bot/bot.service.ts, lines 25-307): the     *)
(* multi-tenant session store, the per-chat conversation state and the     *)
(* asynchronous operations working on them.  JavaScript runs every         *)
(* synchronous stretch of code to completion, so one action is the code    *)
(* between two awaits of real I/O (data-store lookup, send, client start,  *)
(* client destroy, folder removal, sleep).                                 *)
(***************************************************************************)
EXTENDS Integers, Sequences, FiniteSets

\* ------------------------------------------------------------- bounds
\* Asynchronous invocations (handlers, lifecycle calls) in flight at once,
\* the disconnectClient calls an onModuleDestroy makes included.
MaxInFlight == 3
\* Invocations made by the transport and the controller in flight at once.
MaxConcurrent == 2
\* Largest messageCount a chat is driven to.
MaxCount == 3

\* --------------------------------------------------- inputs and tables
TenantOrder == <<"t1", "t2">>
ChatOrder == <<"c1", "c2">>
Tenants == {TenantOrder[i] : i \in DOMAIN TenantOrder}
Chats == {ChatOrder[i] : i \in DOMAIN ChatOrder}
StatusBroadcast == "status@broadcast"
Senders == Chats \cup {StatusBroadcast}
QrPayloads == {"qr-a", "qr-b"}

\* Inbound texts and triggers are sequences of characters.
InboundBodies == { <<"H", "I">>, <<"x", "y", "z">> }

\* lastMessageBody: string | null.  NullBody is null; "" is the empty string.
NullBody == "<null>"
EmptyBody == ""

\* Rows the prompt table may hold (table "prompt" of the data store).
PromptRows ==
  [ i \in 1..3 |->
      CASE i = 1 -> [enterpriseId |-> "t1", available |-> TRUE,  body |-> "P"]
        [] i = 2 -> [enterpriseId |-> "t2", available |-> TRUE,  body |-> EmptyBody]
        [] i = 3 -> [enterpriseId |-> "t1", available |-> FALSE, body |-> "old"] ]

\* Rows the messages table may hold.  ending is "true", "false" or "null".
MessageRows ==
  [ i \in 1..3 |->
      CASE i = 1 -> [enterpriseId |-> "t1", available |-> TRUE,
                     trigger |-> <<"h", "i">>, body |-> "B", ending |-> "true"]
        [] i = 2 -> [enterpriseId |-> "t2", available |-> TRUE,
                     trigger |-> <<"H", "i">>, body |-> "C", ending |-> "null"]
        [] i = 3 -> [enterpriseId |-> "t1", available |-> FALSE,
                     trigger |-> <<"x", "y", "z">>, body |-> "Z", ending |-> "false"] ]

\* findFirst found no row (null).
NoRow == 0

\* References.  The stores hold at most one Client and one ClientState per
\* tenant, so a reference to one of them is Current while the store still maps
\* the tenant to that object.  A Client that left the store is named by the
\* lowest slot still holding it (Current + slot); a ClientState that left the
\* store is Removed: nothing reads its maps again.
Slots == 1..MaxInFlight
NoSess == 0
Current == 1
Removed == 2

\* A handler's userState is InStore while it is the object the tenant's
\* current userStates map holds for the chat; any other UserChatState object
\* is named by the lowest slot holding it.
NoObj == 0
InStore == -1

\* No invocation.
NoSlot == 0

\* ------------------------------------------------------ pure helpers
LowerChar(c) ==
  CASE c = "H" -> "h"
    [] c = "I" -> "i"
    [] OTHER -> c

Lower(s) == [i \in DOMAIN s |-> LowerChar(s[i])]

\* trigger: { equals: body, mode: 'insensitive' }
EqualsInsensitive(a, b) == Lower(a) = Lower(b)

\* prisma.prompt.findFirst({ where: { enterpriseId, available: true } }) on a
\* table holding the rows db: the possible results (no ordering is asked for).
FindFirstPrompt(db, enterpriseId) ==
  LET m == { i \in db : /\ PromptRows[i].enterpriseId = enterpriseId
                        /\ PromptRows[i].available }
  IN  IF m = {} THEN {NoRow} ELSE m

\* prisma.messages.findFirst({ where: { enterpriseId, available: true,
\*                                      trigger: { equals: body, mode: 'insensitive' } } })
FindFirstMessage(db, enterpriseId, body) ==
  LET m == { i \in db : /\ MessageRows[i].enterpriseId = enterpriseId
                        /\ MessageRows[i].available
                        /\ EqualsInsensitive(MessageRows[i].trigger, body) }
  IN  IF m = {} THEN {NoRow} ELSE m

\* JavaScript truthiness of a string | null: null and "" are falsy.
Truthy(b) == b # NullBody /\ b # EmptyBody

\* reply.ending === true
EndingIsTrue(row) == MessageRows[row].ending = "true"

\* Errors a send can reject with, by the text the catch block looks for:
\* "quoted" is 'Could not get the quoted message'; "other" is any other text
\* (the texts ERR_NETWORK_CHANGED, Connection closed and Target closed change
\* the log line only).
SendErrors == {"quoted", "other"}

Min(S) == CHOOSE x \in S : \A y \in S : x <= y

\* ------------------------------------------------------------- state
VARIABLES
  clients,       \* this.clients: tenant -> NoSess (no entry) | Current
  clientStates,  \* this.clientStates: tenant -> NoSess (no entry) | Current
  userStates,    \* the tenant's ClientState.userStates: chatId -> entry
  endingFlags,   \* the tenant's ClientState.endingFlags: chatId -> "none" (no entry) | "true" | "false"
  detached,      \* UserChatState objects held by handlers only, by name
  ops,           \* the invocations in flight or not yet consumed, one per slot
  registered,    \* tenant -> some Client of the tenant carries the event handlers
  sessionData    \* tenant -> the folder .wwebjs_auth/session-<tenant> exists

vars == <<clients, clientStates, userStates, endingFlags, detached, ops,
          registered, sessionData>>

\* A slot holding no invocation.  Every record has the same fields:
\*   kind, pc   which code runs and the await it is suspended at ("done": settled)
\*   t, chat, body   enterpriseId, msg.from, msg.body
\*   fromMe          msg.fromMe
\*   seen            userState.messageCount as the handler logs it at its start
\*   qr              the payload of a 'qr' event
\*   parent          the slot of the onModuleDestroy that made the call (NoSlot:
\*                   another caller)
\*   targets         the tenants an onModuleDestroy called disconnectClient for
\*   cs, cl, us      the locals clientState, currentClient / client, userState
\*   row             the row a lookup returned
\*   branch          the path taken
\*   out             the sends made, in order
\*   notes           the notifications emitted, in order
\*   err             the last error the invocation met
\*   raised          the invocation ended by raising (its promise rejected)
\*   ret             the handle initializeClient returned (NoSess: null)
\*   cleanup         deleteSessionData was called
\*   discSeen, torn  see MarkInits
Free ==
  [ kind |-> "free", pc |-> "free", t |-> "-", chat |-> "-", body |-> <<>>,
    cs |-> NoSess, cl |-> NoSess, us |-> NoObj, row |-> NoRow, branch |-> "-",
    out |-> <<>>, notes |-> <<>>, err |-> "-", origin |-> "-", ret |-> NoSess,
    cleanup |-> FALSE, discSeen |-> FALSE, torn |-> FALSE, fromMe |-> FALSE,
    qr |-> "-", parent |-> NoSlot, targets |-> {}, raised |-> FALSE,
    seen |-> 0 ]

\* userState = { lastMessageBody: null, messageCount: 0 }
NewUserChatState == [lastMessageBody |-> NullBody, messageCount |-> 0]

\* An entry of a userStates map: the object it holds, or no entry.
NoEntry == [has |-> FALSE, lastMessageBody |-> NullBody, messageCount |-> 0]

Entry(obj) ==
  [has |-> TRUE, lastMessageBody |-> obj.lastMessageBody,
   messageCount |-> obj.messageCount]

Obj(entry) ==
  [lastMessageBody |-> entry.lastMessageBody, messageCount |-> entry.messageCount]

\* new Map<string, UserChatState>(), new Map<string, boolean>()
EmptyUserStates == [c \in Chats |-> NoEntry]
EmptyEndingFlags == [c \in Chats |-> "none"]

Init ==
  /\ clients = [t \in Tenants |-> NoSess]
  /\ clientStates = [t \in Tenants |-> NoSess]
  /\ userStates = [t \in Tenants |-> EmptyUserStates]
  /\ endingFlags = [t \in Tenants |-> EmptyEndingFlags]
  /\ detached = [j \in Slots |-> NewUserChatState]
  /\ ops = [k \in Slots |-> Free]
  /\ registered = [t \in Tenants |-> FALSE]
  /\ sessionData = [t \in Tenants |-> FALSE]

\* ----------------------------------------------------- object memory
\* The handlers sharing the object the store holds for (t, chat).
StoreHolders(o, t, chat) ==
  {j \in Slots : o[j].t = t /\ o[j].chat = chat /\ o[j].us = InStore}

\* The invocations holding the object named n (n >= 1).
ObjHolders(o, n) == {j \in Slots : o[j].us = n}

ClientHolders(o, n) == {j \in Slots : o[j].cl = n \/ o[j].ret = n}

ObjName(o, n) == IF n >= 1 THEN Min(ObjHolders(o, n)) ELSE n

ClientName(o, n) == IF n > Current THEN Current + Min(ClientHolders(o, n)) ELSE n

\* The next state of the stores, the object memory and the invocations: the
\* objects outside the stores are named by the lowest slot holding them, and
\* the cells of objects nothing holds are those of a new object.
Store(cl, cst, us, ef, det, o) ==
  /\ clients' = cl
  /\ clientStates' = cst
  /\ userStates' = us
  /\ endingFlags' = ef
  /\ detached' =
       [n \in Slots |->
          IF \E j \in Slots : o[j].us >= 1 /\ ObjName(o, o[j].us) = n
          THEN det[o[CHOOSE j \in Slots : o[j].us >= 1 /\ ObjName(o, o[j].us) = n].us]
          ELSE NewUserChatState]
  /\ ops' = [k \in Slots |->
               [o[k] EXCEPT !.us = ObjName(o, @), !.cl = ClientName(o, @),
                            !.ret = ClientName(o, @)]]

FreeSlots(KK) == {k \in KK : ops[k].kind = "free"}

\* An invocation starts in the lowest free slot among KK.
CanStart(KK, k) == FreeSlots(KK) # {} /\ k = Min(FreeSlots(KK))

\* A settled invocation keeps what it did and returned, not its locals.
Settled(op) ==
  [op EXCEPT !.pc = "done", !.body = <<>>, !.cs = NoSess, !.cl = NoSess,
             !.us = NoObj]
\* Fault: the handler works on the count it read at its start, not on the
\* object's field.
UserStateAsRead(op) ==
  IF op.us = InStore
  THEN [lastMessageBody |-> userStates[op.t][op.chat].lastMessageBody,
        messageCount |-> op.seen]
  ELSE [lastMessageBody |-> detached[op.us].lastMessageBody,
        messageCount |-> op.seen]

\* The UserChatState object a handler's userState refers to.
UserStateOf(op) ==
  IF op.us = InStore THEN Obj(userStates[op.t][op.chat]) ELSE detached[op.us]

\* An assignment to the fields of a handler's userState object: the new
\* userStates maps and the new detached objects.
WriteUserState(op, obj) ==
  IF op.us = InStore
  THEN <<[userStates EXCEPT ![op.t] = [@ EXCEPT ![op.chat] = Entry(obj)]], detached>>
  ELSE <<userStates, [detached EXCEPT ![op.us] = obj]>>
\* Fault: the flag is set through this.clientStates.get(enterpriseId), looked
\* up again, not on the clientState the handler took at its start.
SetEndingFlagInStore(op, v) ==
  [endingFlags EXCEPT ![op.t] = [@ EXCEPT ![op.chat] = v]]

\* clientState.endingFlags.set(chatId, v) on the handler's clientState.
SetEndingFlag(op, v) ==
  IF op.cs = Current
  THEN [endingFlags EXCEPT ![op.t] = [@ EXCEPT ![op.chat] = v]]
  ELSE endingFlags

\* Fault: the handler has no finally block.
PersistNothing(k) == <<userStates, detached, ops>>

\* finally { clientState.userStates.set(chatId, userState) } of the handler in
\* slot k: <<userStates, detached, ops>> afterwards.  The handler's object
\* becomes the entry of the container the handler took at its start; the
\* object the entry held before stays with the handlers that took it.
Persist(k) ==
  LET op == ops[k]
      old == StoreHolders(ops, op.t, op.chat)
      same == ObjHolders(ops, op.us)
  IN  IF op.cs # Current \/ op.us = InStore
      THEN <<userStates, detached, ops>>
      ELSE << [userStates EXCEPT ![op.t] = [@ EXCEPT ![op.chat] = Entry(detached[op.us])]],
              [n \in Slots |->
                 IF old # {} /\ n = Min(old) THEN Obj(userStates[op.t][op.chat])
                 ELSE detached[n]],
              [j \in Slots |->
                 IF j \in old THEN [ops[j] EXCEPT !.us = Min(old)]
                 ELSE IF j \in same THEN [ops[j] EXCEPT !.us = InStore]
                 ELSE ops[j]] >>

\* Fault: the save is the last statement of the try block, not a finally
\* block, so a handler that caught an error returns without saving.
FinishWithoutFinally(k, ch) ==
  LET p == IF ch.err = "-" THEN Persist(k) ELSE <<userStates, detached, ops>>
  IN  Store(clients, clientStates, p[1], endingFlags, p[2],
            [p[3] EXCEPT ![k] = Settled(ch)])

\* The handler in slot k returns: the finally block, then the settled record
\* with the changes ch made to it.
Finish(k, ch) ==
  LET p == Persist(k)
  IN  Store(clients, clientStates, p[1], endingFlags, p[2],
            [p[3] EXCEPT ![k] = Settled(ch)])

\* Fault: the bot's own messages are handled like a user's.
IgnoresBroadcastOnly(from, fromMe) == from = StatusBroadcast

\* ------------------------------------------------------ handleMessage
\* msg.fromMe || msg.from === 'status@broadcast'
Ignored(from, fromMe) == fromMe \/ from = StatusBroadcast

\* !clientState || !currentClient
SessionMissing(t) == clientStates[t] = NoSess \/ clients[t] = NoSess

\* clientState.endingFlags.get(chatId) ?? false
IsEnding(t, chat) == endingFlags[t][chat] = "true"

\* Fault: the ending flag is not looked at when the branch is chosen.
StartsOnlyAtZero(messageCount, isEnding) == messageCount = 0

\* userState.messageCount === 0 || isEnding
StartsConversation(messageCount, isEnding) == messageCount = 0 \/ isEnding

\* Fault: the prompt branch records the body but leaves the count alone.
PromptStateKeepsCount(row) ==
  [lastMessageBody |-> PromptRows[row].body, messageCount |-> 0]
\* Fault: the prompt branch counts the message without recording the body.
PromptStateNullBody(row) == [lastMessageBody |-> NullBody, messageCount |-> 1]

\* userState.messageCount = 1; userState.lastMessageBody = prompt.body
PromptState(row) ==
  [lastMessageBody |-> PromptRows[row].body, messageCount |-> 1]

\* Fault: the match branch records the body without counting the message.
MatchStateKeepsCount(userState, row) ==
  [lastMessageBody |-> MessageRows[row].body,
   messageCount |-> userState.messageCount]

\* Fault: the match branch records the body and resets the count.
MatchStateResetsCount(userState, row) ==
  [lastMessageBody |-> MessageRows[row].body, messageCount |-> 0]

\* userState.messageCount++; userState.lastMessageBody = reply.body
MatchState(userState, row) ==
  [lastMessageBody |-> MessageRows[row].body,
   messageCount |-> userState.messageCount + 1]

\* clientState.endingFlags.set(chatId, reply.ending === true)
MatchEndingFlag(row) == IF EndingIsTrue(row) THEN "true" ELSE "false"

\* Fault: the no-match branch never repeats.
NeverRepeats(userState) == FALSE

\* if (lastSentMessage): the no-match branch repeats the last message
RepeatsLast(userState) == Truthy(userState.lastMessageBody)

\* Fault: every rejected send is taken for a quoting failure.
AnyFailure(e) == TRUE

\* error.message?.includes('Could not get the quoted message')
IsQuotingFailure(e) == e = "quoted"

\* msg.reply(body) ("reply") or currentClient.sendMessage(chatId, body)
\* ("sendMessage"), through the handler's client.
Sent(via, chat, body) == [via |-> via, to |-> chat, body |-> body]

\* The 'message' event of a tenant's client: handleMessage up to its first await.
MessageEvent(KK, k, t, from, fromMe, body) ==
  /\ CanStart(KK, k)
  /\ registered[t]
  /\ UNCHANGED <<registered, sessionData>>
  /\ LET base == [Free EXCEPT !.kind = "msg", !.t = t, !.chat = from, !.body = body,
                              !.fromMe = fromMe]
     IN
     IF Ignored(from, fromMe)
     THEN Store(clients, clientStates, userStates, endingFlags, detached,
                [ops EXCEPT ![k] = [Settled(base) EXCEPT !.branch = "ignored"]])
     ELSE IF SessionMissing(t)
     THEN Store(clients, clientStates, userStates, endingFlags, detached,
                [ops EXCEPT ![k] = [Settled(base) EXCEPT !.branch = "dropped"]])
     ELSE
       LET known == userStates[t][from].has
           userState == IF known THEN Obj(userStates[t][from]) ELSE NewUserChatState
           start == StartsConversation(userState.messageCount, IsEnding(t, from))
       IN  Store(clients, clientStates, userStates, endingFlags,
                 IF known THEN detached
                 ELSE [detached EXCEPT ![k] = NewUserChatState],
                 [ops EXCEPT ![k] =
                    [base EXCEPT !.cs = clientStates[t], !.cl = clients[t],
                                 !.us = IF known THEN InStore ELSE k,
                                 !.seen = userState.messageCount,
                                 !.branch = IF start THEN "start" ELSE "trigger",
                                 !.pc = IF start THEN "findPrompt" ELSE "findReply"]])

\* The contents the tables of the data store may have at a lookup.
PromptTables == SUBSET DOMAIN PromptRows
MessageTables == SUBSET DOMAIN MessageRows

\* prisma.prompt.findFirst resolves with row (NoRow: null), which it does for
\* some content of the table.
PromptLookup(k, row) ==
  /\ ops[k].kind = "msg" /\ ops[k].pc = "findPrompt"
  /\ \E db \in PromptTables : row \in FindFirstPrompt(db, ops[k].t)
  /\ UNCHANGED <<registered, sessionData>>
  /\ LET op == ops[k] IN
       IF row = NoRow
       THEN Finish(k, op)
       ELSE LET w == WriteUserState(op, PromptState(row)) IN
            Store(clients, clientStates, w[1], SetEndingFlag(op, "false"), w[2],
                  [ops EXCEPT ![k] =
                     [op EXCEPT !.pc = "reply", !.row = row, !.body = <<>>,
                                !.out = <<Sent("reply", op.chat, PromptRows[row].body)>>]])

\* prisma.messages.findFirst resolves with row (NoRow: null), which it does
\* for some content of the table.
ReplyLookup(k, row) ==
  /\ ops[k].kind = "msg" /\ ops[k].pc = "findReply"
  /\ \E db \in MessageTables : row \in FindFirstMessage(db, ops[k].t, ops[k].body)
  /\ UNCHANGED <<registered, sessionData>>
  /\ LET op == ops[k]
           userState == UserStateOf(op)
       IN
       IF row = NoRow
       THEN IF RepeatsLast(userState)
            THEN Store(clients, clientStates, userStates, endingFlags, detached,
                       [ops EXCEPT ![k] =
                          [op EXCEPT !.pc = "reply", !.body = <<>>,
                                     !.out = <<Sent("reply", op.chat,
                                                    userState.lastMessageBody)>>]])
            ELSE Finish(k, op)
       ELSE /\ userState.messageCount < MaxCount
            /\ LET w == WriteUserState(op, MatchState(userState, row)) IN
               Store(clients, clientStates, w[1],
                     SetEndingFlag(op, MatchEndingFlag(row)), w[2],
                     [ops EXCEPT ![k] =
                        [op EXCEPT !.pc = "reply", !.row = row, !.body = <<>>,
                                   !.out = <<Sent("reply", op.chat,
                                                  MessageRows[row].body)>>]])

\* A data-store lookup rejects: catch (logged, no fallback), then finally.
LookupFails(k) ==
  /\ ops[k].kind = "msg" /\ ops[k].pc \in {"findPrompt", "findReply"}
  /\ UNCHANGED <<registered, sessionData>>
  /\ Finish(k, [ops[k] EXCEPT !.err = "lookup"])

\* msg.reply resolves: the handler returns through finally.
ReplySent(k) ==
  /\ ops[k].kind = "msg" /\ ops[k].pc = "reply"
  /\ UNCHANGED <<registered, sessionData>>
  /\ Finish(k, ops[k])

\* msg.reply rejects with e: the catch block, with its one fallback for a
\* quoting failure, then finally.
ReplyFails(k, e) ==
  /\ ops[k].kind = "msg" /\ ops[k].pc = "reply"
  /\ UNCHANGED <<registered, sessionData>>
  /\ LET op == ops[k]
         messageToSend == UserStateOf(op).lastMessageBody
     IN
     IF IsQuotingFailure(e) /\ Truthy(messageToSend)
     THEN Store(clients, clientStates, userStates, endingFlags, detached,
                [ops EXCEPT ![k] =
                   [op EXCEPT !.pc = "fallback", !.err = e,
                              !.out = Append(@, Sent("sendMessage", op.chat,
                                                     messageToSend))]])
     ELSE Finish(k, [op EXCEPT !.err = e])

\* Fault: the fallback send is not wrapped in a try block of its own.
FallbackRethrown(ok) == ok

\* try { await currentClient.sendMessage(...) } catch (sendError) { log }:
\* the handler goes on normally whether the fallback resolved (ok) or not.
FallbackCaught(ok) == TRUE

\* currentClient.sendMessage settles (a rejection is only logged), then finally.
FallbackSettles(k, ok) ==
  /\ ops[k].kind = "msg" /\ ops[k].pc = "fallback"
  /\ UNCHANGED <<registered, sessionData>>
  /\ Finish(k, [ops[k] EXCEPT !.err = IF ok THEN @ ELSE "quoted+fallback",
                              !.raised = ~FallbackCaught(ok)])

\* The settled promise of an invocation is consumed by its caller.
Return(k) ==
  /\ ops[k].pc = "done"
  /\ ops[k].parent = NoSlot
  /\ UNCHANGED <<registered, sessionData>>
  /\ Store(clients, clientStates, userStates, endingFlags, detached,
           [ops EXCEPT ![k] = Free])

\* ---------------------------------------------------------- lifecycle
Note(event, t, qr) == [event |-> event, enterpriseId |-> t, qr |-> qr]
\* Fault: the notification does not name the tenant.
DisconnectedAnonymous(t) == Note("client.disconnected", "-", "-")

\* this.eventEmitter.emit('client.disconnected', { enterpriseId })
Disconnected(t) == Note("client.disconnected", t, "-")

\* Faults: the session store is not consulted (taken to be empty, taken to
\* hold the tenant).
SessionNeverExists(t) == FALSE
SessionAssumed(t) == TRUE

\* this.clients.has(enterpriseId)
SessionExists(t) == clients[t] # NoSess

\* Bookkeeping on the initializeClient invocations of tenant t in the slots:
\* since they were called, the tenant's session was removed (torn), and by a
\* disconnectClient (discSeen).
MarkInits(o, t, disc) ==
  [k \in Slots |->
     IF o[k].kind = "init" /\ o[k].t = t
     THEN [o[k] EXCEPT !.torn = TRUE, !.discSeen = @ \/ disc]
     ELSE o[k]]

\* The Client the store held for t left the store: the invocations holding it
\* hold a Client outside the store.
ClientLeaves(o, t) ==
  LET holders == {j \in Slots : o[j].t = t /\ (o[j].cl = Current \/ o[j].ret = Current)}
      name == Current + Min(holders)
  IN  [j \in Slots |->
         IF j \in holders
         THEN [o[j] EXCEPT !.cl = IF @ = Current THEN name ELSE @,
                           !.ret = IF @ = Current THEN name ELSE @]
         ELSE o[j]]

\* The ClientState the store held for t left the store, with the objects of
\* its userStates map: <<detached, ops>> afterwards.
ClientStateLeaves(det, o, t) ==
  << [n \in Slots |->
        IF \E c \in Chats : StoreHolders(o, t, c) # {} /\ n = Min(StoreHolders(o, t, c))
        THEN Obj(userStates[t][CHOOSE c \in Chats :
                                  StoreHolders(o, t, c) # {} /\ n = Min(StoreHolders(o, t, c))])
        ELSE det[n]],
     [j \in Slots |->
        IF o[j].t = t /\ o[j].cs = Current
        THEN [o[j] EXCEPT !.cs = Removed,
                          !.us = IF @ = InStore
                                 THEN Min(StoreHolders(o, t, o[j].chat)) ELSE @]
        ELSE o[j]] >>

\* The Client and the ClientState the stores hold for t leave the stores:
\* <<detached, ops>> afterwards, the invocations being o.
SessionLeaves(t, o) == ClientStateLeaves(detached, ClientLeaves(o, t), t)

\* Fault: only this.clients.delete(enterpriseId) is done.
RemoveClientOnly(t, o) ==
  Store([clients EXCEPT ![t] = NoSess], clientStates, userStates, endingFlags,
        detached, ClientLeaves(o, t))

\* this.clients.delete(enterpriseId); this.clientStates.delete(enterpriseId):
\* the next state of the stores and the memory, the invocations being o.
RemoveSession(t, o) ==
  LET left == SessionLeaves(t, o)
  IN  Store([clients EXCEPT ![t] = NoSess],
            [clientStates EXCEPT ![t] = NoSess],
            [userStates EXCEPT ![t] = EmptyUserStates],
            [endingFlags EXCEPT ![t] = EmptyEndingFlags],
            left[1], left[2])
\* Fault: only this.clients.set(enterpriseId, client) is done.
InstallClientOnly(t, k, rec) ==
  Store([clients EXCEPT ![t] = Current], clientStates, userStates, endingFlags,
        detached, [ClientLeaves(ops, t) EXCEPT ![k] = rec])

\* this.clients.set(enterpriseId, client); this.clientStates.set(enterpriseId,
\* state) with a new Client and a new ClientState of empty maps, by the
\* invocation in slot k, whose record becomes rec.
InstallSession(t, k, rec) ==
  LET left == SessionLeaves(t, ops)
  IN  Store([clients EXCEPT ![t] = Current],
            [clientStates EXCEPT ![t] = Current],
            [userStates EXCEPT ![t] = EmptyUserStates],
            [endingFlags EXCEPT ![t] = EmptyEndingFlags],
            left[1], [left[2] EXCEPT ![k] = rec])

\* initializeClient up to "await client.initialize()".
InitializeClient(KK, k, t) ==
  /\ CanStart(KK, k)
  /\ LET base == [Free EXCEPT !.kind = "init", !.t = t] IN
     IF SessionExists(t)
     THEN /\ UNCHANGED <<registered, sessionData>>
          /\ Store(clients, clientStates, userStates, endingFlags, detached,
                   [ops EXCEPT ![k] = [Settled(base) EXCEPT !.branch = "existing",
                                                            !.ret = clients[t]]])
     ELSE /\ registered' = [registered EXCEPT ![t] = TRUE]
          /\ sessionData' = [sessionData EXCEPT ![t] = TRUE]
          /\ InstallSession(t, k, [base EXCEPT !.pc = "initialize", !.cl = Current,
                                                !.branch = "created"])

\* client.initialize() resolves: return client.
InitializeResolves(k) ==
  /\ ops[k].kind = "init" /\ ops[k].pc = "initialize"
  /\ UNCHANGED <<registered, sessionData>>
  /\ Store(clients, clientStates, userStates, endingFlags, detached,
           [ops EXCEPT ![k] = [Settled(ops[k]) EXCEPT !.ret = ops[k].cl]])

\* deleteSessionData: deleteFolder on the session folder, data being the
\* existence of the session folders: the await the caller is suspended at
\* next.  Nothing in this service writes the legacy folder
\* .wwebjs_auth-<enterpriseId>, so existsSync is false for it and its
\* deleteFolder returns at once.
DeleteFolder(t, data) == IF data[t] THEN "rm" ELSE "deleted"

\* Fault: the catch block of initializeClient returns without emitting.
AfterDeleteSilent(op, pc) ==
  IF pc # "deleted" THEN [op EXCEPT !.pc = pc] ELSE Settled(op)

\* What the caller of deleteSessionData does once it is at pc (lines 117-119
\* of initializeClient; disconnectClient just returns).
AfterDelete(op, pc) ==
  IF pc # "deleted" THEN [op EXCEPT !.pc = pc]
  ELSE IF op.kind = "init"
       THEN [Settled(op) EXCEPT !.notes = Append(@, Disconnected(op.t))]
       ELSE Settled(op)

\* client.initialize() rejects: the catch block up to its first await.
InitializeRejects(k) ==
  /\ ops[k].kind = "init" /\ ops[k].pc = "initialize"
  /\ UNCHANGED <<registered, sessionData>>
  /\ LET t == ops[k].t
         o == MarkInits(ops, t, FALSE)
     IN  RemoveSession(t,
           [o EXCEPT ![k] =
              AfterDelete([o[k] EXCEPT !.err = "initialize", !.cleanup = TRUE],
                          DeleteFolder(t, sessionData))])

\* disconnectClient(base.t) from its call to "await client.destroy()": the
\* record of the invocation, base being the record at the call.
DisconnectCall(base) ==
  IF ~SessionExists(base.t)
  THEN [Settled(base) EXCEPT !.branch = "notfound"]
  ELSE [base EXCEPT !.pc = "destroy", !.cl = clients[base.t],
                    !.branch = "teardown"]

\* disconnectClient up to "await client.destroy()", called by the controller
\* (origin "call") or by the 'auth_failure' / 'disconnected' handler of a
\* tenant's client, which emits client.disconnected first.
DisconnectClient(KK, k, t, origin) ==
  /\ CanStart(KK, k)
  /\ origin = "call" \/ registered[t]
  /\ UNCHANGED <<registered, sessionData>>
  /\ Store(clients, clientStates, userStates, endingFlags, detached,
           [ops EXCEPT ![k] =
              DisconnectCall([Free EXCEPT !.kind = "disc", !.t = t, !.origin = origin,
                                          !.notes = IF origin = "call" THEN <<>>
                                                    ELSE <<Disconnected(t)>>])])

\* Fault: the teardown is written after the try block instead of in finally,
\* with the catch rethrowing.
TeardownOnSuccess(ok) == ok

\* try { await client.destroy() } catch { log } finally { ... }: the finally
\* block runs whether destroy resolved (ok) or rejected.
TeardownRuns(ok) == TRUE

\* client.destroy() settles: catch and finally up to the first await of
\* deleteSessionData.
DestroySettles(k, ok) ==
  /\ ops[k].kind = "disc" /\ ops[k].pc = "destroy"
  /\ UNCHANGED <<registered, sessionData>>
  /\ LET t == ops[k].t
         op == [ops[k] EXCEPT !.err = IF ok THEN @ ELSE "destroy"]
     IN
     IF TeardownRuns(ok)
     THEN LET o == MarkInits(ops, t, TRUE) IN
          RemoveSession(t,
            [o EXCEPT ![k] =
               AfterDelete([op EXCEPT !.notes = Append(@, Disconnected(t)),
                                      !.cleanup = TRUE],
                           DeleteFolder(t, sessionData))])
     ELSE Store(clients, clientStates, userStates, endingFlags, detached,
                [ops EXCEPT ![k] = Settled(op)])
\* Fault: deleteFolder retries after every error, not only after EBUSY.
RetryOnAnyError(k, outcome) ==
  /\ ops[k].pc = "rm"
  /\ UNCHANGED registered
  /\ LET op == ops[k] IN
     /\ sessionData' = IF outcome = "ok" THEN [sessionData EXCEPT ![op.t] = FALSE]
                       ELSE sessionData
     /\ Store(clients, clientStates, userStates, endingFlags, detached,
              [ops EXCEPT ![k] = AfterDelete(op, IF outcome # "ok" THEN "sleep"
                                                 ELSE "deleted")])

\* rm(folderPath) settles: resolved ("ok"), rejected with code EBUSY, or
\* rejected with another error (logged).
RmSettles(k, outcome) ==
  /\ ops[k].pc = "rm"
  /\ UNCHANGED registered
  /\ LET op == ops[k] IN
     /\ sessionData' = IF outcome = "ok" THEN [sessionData EXCEPT ![op.t] = FALSE]
                       ELSE sessionData
     /\ Store(clients, clientStates, userStates, endingFlags, detached,
              [ops EXCEPT ![k] = AfterDelete(op, IF outcome = "EBUSY" THEN "sleep"
                                                 ELSE "deleted")])

\* sleep(1000) ends: deleteFolder is tried again on the same folder.
SleepEnds(k) ==
  /\ ops[k].pc = "sleep"
  /\ UNCHANGED <<registered, sessionData>>
  /\ Store(clients, clientStates, userStates, endingFlags, detached,
           [ops EXCEPT ![k] = AfterDelete(ops[k], DeleteFolder(ops[k].t, sessionData))])

\* Fault: the notification carries the rendering, not the payload.
QrNoteRendered(t, qr) == Note("qrcode.created", t, "rendered")

\* this.eventEmitter.emit('qrcode.created', { enterpriseId, qr })
QrNote(t, qr) == Note("qrcode.created", t, qr)

\* The 'qr' event of a tenant's client.
QrEvent(KK, k, t, qr) ==
  /\ CanStart(KK, k)
  /\ registered[t]
  /\ UNCHANGED <<registered, sessionData>>
  /\ Store(clients, clientStates, userStates, endingFlags, detached,
           [ops EXCEPT ![k] =
              [Settled([Free EXCEPT !.kind = "qr", !.t = t, !.qr = qr])
                 EXCEPT !.notes = <<QrNote(t, qr)>>]])
\* Fault: one endingFlags map is shared by the tenants, and 'ready' clears it.
ClearEveryEndingFlag(t) == [t2 \in Tenants |-> EmptyEndingFlags]

\* Fault: the 'ready' handler leaves the ending flags alone.
KeepEndingFlags(t) == endingFlags

\* if (clientState) clientState.endingFlags.clear(), on the ClientState the
\* store holds for the tenant at the event.
ClearEndingFlags(t) ==
  IF clientStates[t] # NoSess
  THEN [endingFlags EXCEPT ![t] = EmptyEndingFlags] ELSE endingFlags

\* The 'ready' event of a tenant's client.
ReadyEvent(KK, k, t) ==
  /\ CanStart(KK, k)
  /\ registered[t]
  /\ UNCHANGED <<registered, sessionData>>
  /\ Store(clients, clientStates, userStates, ClearEndingFlags(t), detached,
           [ops EXCEPT ![k] =
              [Settled([Free EXCEPT !.kind = "ready", !.t = t])
                 EXCEPT !.notes = <<Note("client.ready", t, "-")>>]])

\* ------------------------------------------------------ onModuleDestroy
TenantRank(t) == CHOOSE i \in DOMAIN TenantOrder : TenantOrder[i] = t

\* Array.from(this.clients.keys())
LiveTenants == {t \in Tenants : SessionExists(t)}

\* The slot the disconnectClient(t) of an onModuleDestroy in slot k runs in:
\* the free slots other than k, from the highest down, in the order of the
\* tenants.
SlotFor(k, t) ==
  LET others == FreeSlots(Slots) \ {k}
      before == Cardinality({t2 \in LiveTenants : TenantRank(t2) < TenantRank(t)})
  IN  CHOOSE j \in others : Cardinality({j2 \in others : j2 > j}) = before

\* The disconnectClient invocations the onModuleDestroy in slot k called.
Children(o, k) == {j \in Slots : o[j].parent = k}

\* await Promise.allSettled(disconnectionPromises)
AllSettled(k) == \A j \in Children(ops, k) : ops[j].pc = "done"

\* onModuleDestroy up to its first await: a disconnectClient is called for
\* every key of this.clients, each running to its "await client.destroy()";
\* with no key, Promise.allSettled([]) resolves and prisma.$disconnect() is
\* awaited.
OnModuleDestroy(KK, k) ==
  /\ CanStart(KK, k)
  /\ Cardinality(FreeSlots(Slots) \ {k}) >= Cardinality(LiveTenants)
  /\ UNCHANGED <<registered, sessionData>>
  /\ Store(clients, clientStates, userStates, endingFlags, detached,
           [j \in Slots |->
              IF j = k
              THEN [Free EXCEPT !.kind = "shutdown", !.targets = LiveTenants,
                                !.pc = IF LiveTenants = {} THEN "prismaDisconnect"
                                       ELSE "allSettled"]
              ELSE IF \E t \in LiveTenants : SlotFor(k, t) = j
              THEN DisconnectCall(
                     [Free EXCEPT !.kind = "disc", !.origin = "shutdown", !.parent = k,
                                  !.t = CHOOSE t \in LiveTenants : SlotFor(k, t) = j])
              ELSE ops[j]])

\* Promise.allSettled resolves: the results are dropped, and
\* prisma.$disconnect() is awaited.
DisconnectsSettled(k) ==
  /\ ops[k].kind = "shutdown" /\ ops[k].pc = "allSettled"
  /\ AllSettled(k)
  /\ UNCHANGED <<registered, sessionData>>
  /\ Store(clients, clientStates, userStates, endingFlags, detached,
           [j \in Slots |->
              IF j = k THEN [ops[k] EXCEPT !.pc = "prismaDisconnect"]
              ELSE IF j \in Children(ops, k) THEN Free
              ELSE ops[j]])

\* prisma.$disconnect() settles; nothing catches its rejection.
PrismaDisconnects(k, ok) ==
  /\ ops[k].kind = "shutdown" /\ ops[k].pc = "prismaDisconnect"
  /\ UNCHANGED <<registered, sessionData>>
  /\ Store(clients, clientStates, userStates, endingFlags, detached,
           [ops EXCEPT ![k] = [Settled(ops[k]) EXCEPT
                                 !.err = IF ok THEN @ ELSE "$disconnect",
                                 !.raised = ~ok]])

\* ------------------------------------------------------- specification
Origins == {"call", "auth_failure", "disconnected"}
RmOutcomes == {"ok", "EBUSY", "other"}

\* The steps of the invocations in flight, the transport and the controller
\* starting theirs in the slots KK (at most Cardinality(KK) at a time), on the
\* tenants TT, with messages from the senders SS.
Step(KK, TT, SS) ==
  \/ \E k \in KK, t \in TT : InitializeClient(KK, k, t)
  \/ \E k \in Slots : InitializeResolves(k)
  \/ \E k \in Slots : InitializeRejects(k)
  \/ \E k \in KK, t \in TT, origin \in Origins : DisconnectClient(KK, k, t, origin)
  \/ \E k \in Slots, ok \in BOOLEAN : DestroySettles(k, ok)
  \/ \E k \in Slots, outcome \in RmOutcomes : RmSettles(k, outcome)
  \/ \E k \in Slots : SleepEnds(k)
  \/ \E k \in KK, t \in TT, qr \in QrPayloads : QrEvent(KK, k, t, qr)
  \/ \E k \in KK, t \in TT : ReadyEvent(KK, k, t)
  \/ \E k \in KK, t \in TT, from \in SS, fromMe \in BOOLEAN, body \in InboundBodies :
        MessageEvent(KK, k, t, from, fromMe, body)
  \/ \E k \in Slots, row \in {NoRow} \cup DOMAIN PromptRows : PromptLookup(k, row)
  \/ \E k \in Slots, row \in {NoRow} \cup DOMAIN MessageRows : ReplyLookup(k, row)
  \/ \E k \in Slots : LookupFails(k)
  \/ \E k \in Slots : ReplySent(k)
  \/ \E k \in Slots, e \in SendErrors : ReplyFails(k, e)
  \/ \E k \in Slots, ok \in BOOLEAN : FallbackSettles(k, ok)
  \/ \E k \in KK : OnModuleDestroy(KK, k)
  \/ \E k \in Slots : DisconnectsSettled(k)
  \/ \E k \in Slots, ok \in BOOLEAN : PrismaDisconnects(k, ok)
  \/ \E k \in Slots : Return(k)

\* Two scopes of the same step relation are explored.  Next: up to
\* MaxConcurrent invocations of the transport and the controller in flight at
\* once, on one tenant, with messages of one chat and of status@broadcast.
ConcurrentTenants == {TenantOrder[1]}

ConcurrentSenders == {ChatOrder[1], StatusBroadcast}

Next == Step(1..MaxConcurrent, ConcurrentTenants, ConcurrentSenders)

Spec == Init /\ [][Next]_vars

\* NextSerial: one invocation of the transport or the controller at a time,
\* on every tenant and every chat.
NextSerial == Step({Min(Slots)}, Tenants, Senders)

SpecSerial == Init /\ [][NextSerial]_vars

\* NextTenants: the invocations of one tenant one at a time, those of
\* different tenants concurrently (tenant i starts its invocations in slot i),
\* with messages of one chat.
NextTenants ==
  \E i \in DOMAIN TenantOrder : Step({i}, {TenantOrder[i]}, {ChatOrder[1]})

SpecTenants == Init /\ [][NextTenants]_vars

\* The steps of the lifecycle operations alone: the transport delivers only
\* its termination events.
LifecycleStep(KK, TT) ==
  \/ \E k \in KK, t \in TT : InitializeClient(KK, k, t)
  \/ \E k \in Slots : InitializeResolves(k)
  \/ \E k \in Slots : InitializeRejects(k)
  \/ \E k \in KK, t \in TT, origin \in Origins : DisconnectClient(KK, k, t, origin)
  \/ \E k \in Slots, ok \in BOOLEAN : DestroySettles(k, ok)
  \/ \E k \in Slots, outcome \in RmOutcomes : RmSettles(k, outcome)
  \/ \E k \in Slots : SleepEnds(k)
  \/ \E k \in KK : OnModuleDestroy(KK, k)
  \/ \E k \in Slots : DisconnectsSettled(k)
  \/ \E k \in Slots, ok \in BOOLEAN : PrismaDisconnects(k, ok)
  \/ \E k \in Slots : Return(k)

\* NextLifecycle: the lifecycle operations of one tenant, up to MaxConcurrent
\* calls of the controller and the transport in flight at once.
NextLifecycle == LifecycleStep(1..MaxConcurrent, ConcurrentTenants)

\* The awaits of the teardown end: client.destroy() settles, rm settles, the
\* timer of sleep(1000) fires; and a folder is not busy for ever: of the
\* attempts to remove it, one ends otherwise than by EBUSY.
LifecycleFairness ==
  \A k \in Slots :
    /\ WF_vars(\E ok \in BOOLEAN : DestroySettles(k, ok))
    /\ WF_vars(\E outcome \in RmOutcomes : RmSettles(k, outcome))
    /\ WF_vars(SleepEnds(k))
    /\ SF_vars(\E outcome \in RmOutcomes \ {"EBUSY"} : RmSettles(k, outcome))

SpecLifecycle == Init /\ [][NextLifecycle]_vars /\ LifecycleFairness

\* ---------------------------------------------------------- properties
\* The UserChatState object the handler record op refers to, in the state
\* whose userStates maps and detached objects are us and det.
HeldState(op, us, det) ==
  IF op.us = InStore THEN Obj(us[op.t][op.chat]) ELSE det[op.us]

\* Slot k takes a message that is neither ignored nor dropped.
Arrives(k) ==
  ops[k].kind = "free" /\ ops'[k].kind = "msg" /\ ops'[k].pc # "done"

\* The handler in slot k gets the answer of the prompt lookup, a row.
PromptFound(k) == ops[k].pc = "findPrompt" /\ ops'[k].pc = "reply"

\* The handler in slot k gets the answer of the reply lookup: a row, or none.
ReplyFound(k) ==
  ops[k].pc = "findReply" /\ ops'[k].pc = "reply" /\ ops'[k].row # NoRow
NoReplyFound(k) ==
  /\ ops[k].pc = "findReply" /\ ops'[k].pc \in {"reply", "done"}
  /\ ops'[k].row = NoRow /\ ops'[k].err = "-"

\* The handler in slot k returns after its send went through.
SendReturns(k) ==
  ops[k].kind = "msg" /\ ops[k].pc = "reply" /\ ops'[k].pc = "done" /\ ops'[k].err = "-"

\* The disconnectClient in slot k gets past "await client.destroy()".
PastDestroy(k) ==
  ops[k].kind = "disc" /\ ops[k].pc = "destroy" /\ ops'[k].pc # "destroy"

\* The ending flag of (t, c) as a handler reads it: endingFlags.get(c) ?? false.
FlagOf(ef, t, c) == ef[t][c] = "true"

NoSessionOf(cl, cst, us, ef, t) ==
  /\ cl[t] = NoSess /\ cst[t] = NoSess
  /\ \A c \in Chats : ~us[t][c].has /\ ef[t][c] = "none"

DisconnectedNote(t) ==
  [event |-> "client.disconnected", enterpriseId |-> t, qr |-> "-"]

\* C1 as stated: two initializeClient(T) calls with no disconnect of T since
\* the earlier one return the same client handle.
C1_SameHandleUnlessDisconnected ==
  \A a, b \in Slots :
    (/\ a # b
     /\ ops[a].kind = "init" /\ ops[b].kind = "init" /\ ops[a].t = ops[b].t
     /\ ops[a].pc = "done" /\ ops[b].pc = "done"
     /\ ~ops[a].discSeen /\ ~ops[b].discSeen)
    => ops[a].ret = ops[b].ret

\* The handle an initializeClient that has not failed returns: its client.
InitHandle(op) == IF op.pc = "done" THEN op.ret ELSE op.cl

\* C1, amended: two initializeClient(T) calls with neither a disconnect nor a
\* failed start of T since the earlier one have the same client handle, the
\* one in the session store, and a call that finds a session of T returns it
\* and creates nothing: the stores, the conversation state and the credential
\* storage are as before.
C1_SameHandleUnlessRemoved ==
  [][/\ \A a, b \in Slots :
          (/\ ops'[a].kind = "init" /\ ops'[b].kind = "init"
           /\ ops'[a].t = ops'[b].t
           /\ ops'[a].pc \in {"initialize", "done"}
           /\ ops'[b].pc \in {"initialize", "done"}
           /\ ~ops'[a].torn /\ ~ops'[b].torn)
          => /\ InitHandle(ops'[a]) = InitHandle(ops'[b])
             /\ InitHandle(ops'[a]) = clients'[ops'[a].t]
             /\ InitHandle(ops'[a]) # NoSess
     /\ \A k \in Slots :
          (/\ ops[k].kind = "free" /\ ops'[k].kind = "init"
           /\ clients[ops'[k].t] # NoSess)
          => /\ ops'[k].pc = "done"
             /\ ops'[k].ret = clients[ops'[k].t]
             /\ UNCHANGED <<clients, clientStates, userStates, endingFlags,
                            detached, registered, sessionData>>
    ]_vars

\* C1: a call that created the session and a later call that found it have
\* both returned, the same handle.
C1_Witness ==
  \E a, b \in Slots :
    /\ ops[a].kind = "init" /\ ops[a].branch = "created" /\ ops[a].pc = "done"
    /\ ops[b].kind = "init" /\ ops[b].branch = "existing" /\ ops[b].pc = "done"
    /\ ops[a].t = ops[b].t
    /\ ~ops[a].torn /\ ~ops[b].torn
    /\ ops[a].ret = ops[b].ret /\ ops[a].ret = clients[ops[a].t]
    /\ ops[a].ret # NoSess

\* C2: a message of a chat the tenant's container has no entry for takes the
\* start branch whatever its body; that branch never does the reply lookup;
\* with a prompt found it makes one send, of the prompt's body, and sets the
\* handler's state to messageCount 1, lastMessageBody the prompt's body and
\* the ending flag to false; that state is the chat's entry when the handler
\* returns after the send.
C2_FirstMessageStarts ==
  [][\A k \in Slots :
       LET t == ops'[k].t
           chat == ops'[k].chat
           row == ops'[k].row
       IN
       /\ (Arrives(k) /\ ~userStates[t][chat].has)
            => /\ ops'[k].branch = "start" /\ ops'[k].pc = "findPrompt"
               /\ ops'[k].out = <<>>
       /\ (ops[k].kind = "msg" /\ ops[k].branch = "start")
            => ops'[k].pc # "findReply"
       /\ PromptFound(k)
            => /\ row \in DOMAIN PromptRows
               /\ PromptRows[row].enterpriseId = t /\ PromptRows[row].available
               /\ ops'[k].out = <<[via |-> "reply", to |-> chat,
                                   body |-> PromptRows[row].body]>>
               /\ HeldState(ops'[k], userStates', detached') =
                    [lastMessageBody |-> PromptRows[row].body, messageCount |-> 1]
               /\ ops'[k].cs = Current => ~FlagOf(endingFlags', t, chat)
       /\ (SendReturns(k) /\ ops[k].branch = "start" /\ ops[k].cs = Current)
            => /\ ops'[k].out = ops[k].out
               /\ userStates'[t][chat] =
                    [has |-> TRUE, lastMessageBody |-> PromptRows[ops[k].row].body,
                     messageCount |-> 1]
               /\ ~FlagOf(endingFlags', t, chat)
    ]_vars

\* C2: a handler of the start branch has returned after one send, of the
\* prompt's body, and the chat's entry is count 1, flag false, that body.
C2_Witness ==
  \E k \in Slots :
    /\ ops[k].kind = "msg" /\ ops[k].pc = "done" /\ ops[k].branch = "start"
    /\ ops[k].err = "-" /\ ops[k].row # NoRow
    /\ ops[k].out = <<[via |-> "reply", to |-> ops[k].chat,
                       body |-> PromptRows[ops[k].row].body]>>
    /\ userStates[ops[k].t][ops[k].chat] =
         [has |-> TRUE, lastMessageBody |-> PromptRows[ops[k].row].body,
          messageCount |-> 1]
    /\ ~FlagOf(endingFlags, ops[k].t, ops[k].chat)

\* C3: a message of a chat with messageCount > 0 and no ending flag takes the
\* trigger branch; a lookup on a table with a matching available reply of the
\* tenant returns one; with a reply found the handler adds exactly 1 to
\* messageCount, sets lastMessageBody to the reply's body and the ending flag
\* to (ending = true), and makes one send, of the reply's body; that state is
\* the chat's entry when the handler returns after the send.
C3_MatchAdvances ==
  [][\A k \in Slots :
       LET t == ops'[k].t
           chat == ops'[k].chat
           row == ops'[k].row
       IN
       /\ (/\ Arrives(k) /\ userStates[t][chat].has
           /\ userStates[t][chat].messageCount > 0
           /\ ~FlagOf(endingFlags, t, chat))
            => ops'[k].branch = "trigger" /\ ops'[k].pc = "findReply"
       /\ ops[k].pc = "findReply"
            => \A db \in MessageTables :
                 LET hits == {i \in db : /\ MessageRows[i].enterpriseId = ops[k].t
                                         /\ MessageRows[i].available
                                         /\ Lower(MessageRows[i].trigger) = Lower(ops[k].body)}
                 IN  hits # {} => FindFirstMessage(db, ops[k].t, ops[k].body) \subseteq hits
       /\ ReplyFound(k)
            => /\ row \in DOMAIN MessageRows
               /\ MessageRows[row].enterpriseId = t /\ MessageRows[row].available
               /\ Lower(MessageRows[row].trigger) = Lower(ops[k].body)
               /\ HeldState(ops'[k], userStates', detached').messageCount =
                    HeldState(ops[k], userStates, detached).messageCount + 1
               /\ HeldState(ops'[k], userStates', detached').lastMessageBody =
                    MessageRows[row].body
               /\ ops'[k].cs = Current =>
                    FlagOf(endingFlags', t, chat) = (MessageRows[row].ending = "true")
               /\ ops'[k].out = <<[via |-> "reply", to |-> chat,
                                   body |-> MessageRows[row].body]>>
       /\ (/\ SendReturns(k) /\ ops[k].branch = "trigger" /\ ops[k].row # NoRow
           /\ ops[k].cs = Current)
            => /\ ops'[k].out = ops[k].out
               /\ userStates'[t][chat] =
                    Entry(HeldState(ops[k], userStates, detached))
               /\ userStates'[t][chat].lastMessageBody = MessageRows[ops[k].row].body
    ]_vars

\* C3: the reply with trigger "hi" and ending true answered "HI": count 2,
\* the reply's body, ending flag set, one send.
C3_Witness ==
  \E k \in Slots :
    /\ ops[k].kind = "msg" /\ ops[k].pc = "done" /\ ops[k].branch = "trigger"
    /\ ops[k].err = "-" /\ ops[k].row # NoRow
    /\ MessageRows[ops[k].row].ending = "true"
    /\ MessageRows[ops[k].row].trigger # <<"H", "I">>
    /\ ops[k].out = <<[via |-> "reply", to |-> ops[k].chat,
                       body |-> MessageRows[ops[k].row].body]>>
    /\ userStates[ops[k].t][ops[k].chat] =
         [has |-> TRUE, lastMessageBody |-> MessageRows[ops[k].row].body,
          messageCount |-> 2]
    /\ FlagOf(endingFlags, ops[k].t, ops[k].chat)

\* C4: a message of a chat whose ending flag is true takes the start branch,
\* whatever its body; the start branch never does the reply lookup, and with a
\* prompt found it sets messageCount to 1 whatever the count was, the ending
\* flag to false and lastMessageBody to the prompt's body, and sends that body.
C4_EndingRestarts ==
  [][\A k \in Slots :
       LET t == ops'[k].t
           chat == ops'[k].chat
           row == ops'[k].row
       IN
       /\ (Arrives(k) /\ FlagOf(endingFlags, t, chat))
            => ops'[k].branch = "start" /\ ops'[k].pc = "findPrompt"
       /\ (ops[k].kind = "msg" /\ ops[k].branch = "start" /\ ops[k].pc # "done")
            => ops'[k].pc \in {"findPrompt", "reply", "fallback", "done"}
       /\ (/\ PromptFound(k)
           /\ HeldState(ops[k], userStates, detached).messageCount >= 1)
            => /\ HeldState(ops'[k], userStates', detached').messageCount = 1
               /\ HeldState(ops'[k], userStates', detached').lastMessageBody =
                    PromptRows[row].body
               /\ ops'[k].cs = Current => ~FlagOf(endingFlags', t, chat)
               /\ ops'[k].out = <<[via |-> "reply", to |-> chat,
                                   body |-> PromptRows[row].body]>>
    ]_vars

\* C4: a message whose body equals a trigger of the tenant was taken by the
\* start branch, the chat's ending flag being true and its count above 1.
C4_Witness ==
  \E k \in Slots :
    /\ ops[k].kind = "msg" /\ ops[k].pc = "findPrompt" /\ ops[k].branch = "start"
    /\ FlagOf(endingFlags, ops[k].t, ops[k].chat)
    /\ HeldState(ops[k], userStates, detached).messageCount > 1
    /\ \E i \in DOMAIN MessageRows :
         /\ MessageRows[i].enterpriseId = ops[k].t /\ MessageRows[i].available
         /\ Lower(MessageRows[i].trigger) = Lower(ops[k].body)

\* The handler in slot k took the trigger branch and its lookup found no reply.
Unmatched(op) ==
  op.kind = "msg" /\ op.branch = "trigger" /\ op.row = NoRow /\ op.err # "lookup"

\* C5 as stated: in the trigger branch, with no reply found and a
\* lastMessageBody that is not null, the handler sends lastMessageBody once
\* and changes no conversation state.
C5_RepeatsWhenSet ==
  [][\A k \in Slots :
       (/\ NoReplyFound(k)
        /\ HeldState(ops[k], userStates, detached).lastMessageBody # NullBody)
       => /\ ops'[k].out =
               <<[via |-> "reply", to |-> ops[k].chat,
                  body |-> HeldState(ops[k], userStates, detached).lastMessageBody]>>
          /\ UNCHANGED <<userStates, endingFlags>>
    ]_vars

\* C5, amended: in the trigger branch, with no reply found and a
\* lastMessageBody that is neither null nor the empty string, the handler
\* sends lastMessageBody once, verbatim; with the empty string it sends
\* nothing; in both cases no step of the handler, up to its return, changes
\* the conversation state.
C5_RepeatsWhenNonEmpty ==
  [][\A k \in Slots :
       LET last == HeldState(ops[k], userStates, detached).lastMessageBody IN
       /\ (NoReplyFound(k) /\ last \notin {NullBody, EmptyBody})
            => /\ ops'[k].pc = "reply"
               /\ ops'[k].out = <<[via |-> "reply", to |-> ops[k].chat, body |-> last]>>
               /\ UNCHANGED <<userStates, endingFlags>>
       /\ (NoReplyFound(k) /\ last = EmptyBody)
            => /\ ops'[k].pc = "done" /\ ops'[k].out = <<>>
               /\ UNCHANGED <<userStates, endingFlags>>
       /\ (Unmatched(ops[k]) /\ ops[k].pc \in {"reply", "fallback"})
            => /\ UNCHANGED <<userStates, endingFlags>>
               /\ SendReturns(k) => ops'[k].out = ops[k].out
    ]_vars

\* C5: a handler of the trigger branch that found no reply has returned after
\* one send, of the chat's lastMessageBody, which is not empty.
C5_Witness ==
  \E k \in Slots :
    /\ Unmatched(ops[k]) /\ ops[k].pc = "done" /\ ops[k].err = "-"
    /\ userStates[ops[k].t][ops[k].chat].lastMessageBody \notin {NullBody, EmptyBody}
    /\ ops[k].out = <<[via |-> "reply", to |-> ops[k].chat,
                       body |-> userStates[ops[k].t][ops[k].chat].lastMessageBody]>>

\* C7 as stated: a disconnectClient that tears a session down, called by the
\* controller or by the 'disconnected' or 'auth_failure' handler, comes with
\* exactly one client.disconnected notification for the tenant.
C7_OneNotificationPerDisconnect ==
  \A k \in Slots :
    (/\ ops[k].kind = "disc" /\ ops[k].branch = "teardown"
     /\ ops[k].pc \in {"rm", "sleep", "done"})
    => ops[k].notes = <<DisconnectedNote(ops[k].t)>>

\* C8 as stated: at the return of a disconnectClient(T) that found a session,
\* the stores hold no client and no conversation state of T.
C8_GoneAtReturn ==
  [][\A k \in Slots :
       (/\ ops[k].kind = "disc" /\ ops[k].branch = "teardown"
        /\ ops[k].pc # "done" /\ ops'[k].pc = "done")
       => NoSessionOf(clients', clientStates', userStates', endingFlags', ops[k].t)
    ]_vars

\* C8, amended: the teardown of disconnectClient(T) leaves the stores without
\* client and conversation state of T, and the rest of the call changes no
\* store; a client of T comes into the store only by an initializeClient(T),
\* with a conversation state that has no entry for any chat; and a message of
\* a chat without entry takes the start branch from messageCount 0 and
\* lastMessageBody null.
C8_GoneUntilInitialized ==
  [][/\ \A k \in Slots :
          /\ PastDestroy(k)
               => NoSessionOf(clients', clientStates', userStates', endingFlags',
                              ops[k].t)
          /\ (ops[k].kind = "disc" /\ ops[k].pc \in {"rm", "sleep"}
              /\ ops'[k] # ops[k])
               => UNCHANGED <<clients, clientStates, userStates, endingFlags>>
          /\ (/\ Arrives(k)
              /\ ~userStates[ops'[k].t][ops'[k].chat].has
              /\ ~FlagOf(endingFlags, ops'[k].t, ops'[k].chat))
               => /\ ops'[k].branch = "start"
                  /\ HeldState(ops'[k], userStates', detached') =
                       [lastMessageBody |-> NullBody, messageCount |-> 0]
     /\ \A t \in Tenants :
          (clients[t] = NoSess /\ clients'[t] # NoSess)
          => /\ \E k \in Slots : /\ ops[k].kind = "free" /\ ops'[k].kind = "init"
                                 /\ ops'[k].t = t /\ ops'[k].cl = clients'[t]
             /\ clientStates'[t] # NoSess
             /\ \A c \in Chats : ~userStates'[t][c].has /\ endingFlags'[t][c] = "none"
    ]_vars

\* C8: a disconnectClient(T) has returned and an initializeClient(T) called
\* after its teardown has made a new session, with no entry for any chat.
C8_Witness ==
  \E a, b \in Slots :
    /\ ops[a].kind = "disc" /\ ops[a].branch = "teardown" /\ ops[a].pc = "done"
    /\ ops[b].kind = "init" /\ ops[b].branch = "created" /\ ops[b].t = ops[a].t
    /\ ~ops[b].torn
    /\ clients[ops[a].t] # NoSess /\ clientStates[ops[a].t] # NoSess
    /\ \A c \in Chats : ~userStates[ops[a].t][c].has

\* C9: a disconnectClient(T) that finds no client of T in the store returns
\* at once, without error, notification or credential deletion of its own, and
\* leaves the stores, the conversation state and the credential storage of
\* every tenant as they are.
C9_NothingToDisconnect ==
  [][\A k \in Slots :
       (/\ ops[k].kind = "free" /\ ops'[k].kind = "disc"
        /\ clients[ops'[k].t] = NoSess)
       => /\ ops'[k].pc = "done" /\ ops'[k].err = "-"
          /\ ~ops'[k].cleanup
          /\ ops'[k].notes = (IF ops'[k].origin = "call" THEN <<>>
                              ELSE <<DisconnectedNote(ops'[k].t)>>)
          /\ UNCHANGED <<clients, clientStates, userStates, endingFlags,
                         detached, registered, sessionData>>
    ]_vars

\* C9: the controller's disconnectClient(T) found no session of T and has
\* returned with no notification; T's credential folder is still there, and
\* another tenant has a session with conversation state.
C9_Witness ==
  \E k \in Slots :
    /\ ops[k].kind = "disc" /\ ops[k].origin = "call" /\ ops[k].branch = "notfound"
    /\ ops[k].pc = "done" /\ ops[k].notes = <<>> /\ ~ops[k].cleanup
    /\ clients[ops[k].t] = NoSess /\ sessionData[ops[k].t]
    /\ \E t \in Tenants \ {ops[k].t} :
         clients[t] # NoSess /\ \E c \in Chats : userStates[t][c].has

\* C10: whether client.destroy() resolved or rejected, the disconnectClient
\* that awaited it emits client.disconnected, leaves the stores without client
\* and conversation state of the tenant, and goes on to delete the credential
\* folder, removing it if it exists; the rejection is caught, and no outcome
\* of the deletion makes the call fail or emit again.
C10_TeardownAlways ==
  [][\A k \in Slots :
       /\ PastDestroy(k)
            => /\ ops'[k].notes = Append(ops[k].notes, DisconnectedNote(ops[k].t))
               /\ NoSessionOf(clients', clientStates', userStates', endingFlags',
                              ops[k].t)
               /\ ops'[k].cleanup
               /\ ops'[k].pc = (IF sessionData[ops[k].t] THEN "rm" ELSE "done")
               /\ ops'[k].err \in {"-", "destroy"}
       /\ (ops[k].kind = "disc" /\ ops[k].pc \in {"rm", "sleep"} /\ ops'[k] # ops[k])
            => /\ ops'[k].pc \in {"rm", "sleep", "done"}
               /\ ops'[k].notes = ops[k].notes
               /\ ops'[k].err = ops[k].err
    ]_vars

\* C10: a disconnectClient whose client.destroy() rejected has returned,
\* having emitted the notification and attempted the deletion, and the stores
\* hold nothing of the tenant.
C10_Witness ==
  \E k \in Slots :
    /\ ops[k].kind = "disc" /\ ops[k].pc = "done" /\ ops[k].err = "destroy"
    /\ ops[k].cleanup
    /\ ops[k].notes = <<DisconnectedNote(ops[k].t)>>
    /\ NoSessionOf(clients, clientStates, userStates, endingFlags, ops[k].t)

\* The initializeClient in slot k gets the rejection of client.initialize().
FailedStart(k) ==
  ops[k].kind = "init" /\ ops[k].pc = "initialize" /\ ops'[k].err = "initialize"

\* The initializeClient in slot k, whose start failed, returns.
FailedStartReturns(k) ==
  /\ ops[k].kind = "init" /\ ops[k].pc # "done"
  /\ ops'[k].pc = "done" /\ ops'[k].err = "initialize"

\* C11 as stated: when an initializeClient(T) whose start failed returns, it
\* returns null, the stores hold no client and no conversation state of T,
\* the deletion of T's credential folder was attempted and one
\* client.disconnected of T was emitted.
C11_CleanAtReturn ==
  [][\A k \in Slots :
       FailedStartReturns(k)
       => /\ ops'[k].ret = NoSess
          /\ ops'[k].cleanup
          /\ ops'[k].notes = <<DisconnectedNote(ops[k].t)>>
          /\ NoSessionOf(clients', clientStates', userStates', endingFlags', ops[k].t)
    ]_vars

\* C11, amended: the catch block leaves the stores without client and
\* conversation state of T and goes on to delete the credential folder; the
\* rest of the call changes no store and no outcome of the deletion makes it
\* fail; the call returns null after emitting one client.disconnected of T.
C11_CleansUpOnFailure ==
  [][\A k \in Slots :
       /\ FailedStart(k)
            => /\ NoSessionOf(clients', clientStates', userStates', endingFlags',
                              ops[k].t)
               /\ ops'[k].cleanup
               /\ ops'[k].pc = (IF sessionData[ops[k].t] THEN "rm" ELSE "done")
       /\ (ops[k].kind = "init" /\ ops[k].pc \in {"rm", "sleep"}
           /\ ops'[k].pc # ops[k].pc)
            => /\ UNCHANGED <<clients, clientStates, userStates, endingFlags>>
               /\ ops'[k].pc \in {"rm", "sleep", "done"}
               /\ ops'[k].err = ops[k].err
       /\ (ops[k].kind = "init" /\ ops'[k].kind = "init"
           /\ ops'[k].err = "initialize" /\ ops'[k].pc # "done")
            => ops'[k].notes = <<>>
       /\ FailedStartReturns(k)
            => /\ ops'[k].ret = NoSess
               /\ ops'[k].cleanup
               /\ ops'[k].notes = <<DisconnectedNote(ops[k].t)>>
    ]_vars

\* C11: an initializeClient(T) whose client.initialize() rejected has returned
\* null after the deletion of an existing credential folder and one
\* client.disconnected, and the stores hold nothing of T.
C11_Witness ==
  \E k \in Slots :
    /\ ops[k].kind = "init" /\ ops[k].pc = "done" /\ ops[k].err = "initialize"
    /\ ops[k].branch = "created" /\ ops[k].ret = NoSess /\ ops[k].cleanup
    /\ ops[k].notes = <<DisconnectedNote(ops[k].t)>>
    /\ ~sessionData[ops[k].t]
    /\ NoSessionOf(clients, clientStates, userStates, endingFlags, ops[k].t)

\* C12: a 'ready' event of tenant T leaves no ending flag in T's container,
\* and changes no UserChatState object (in the maps or held by a handler), no
\* session entry, and no ending flag of another tenant.
C12_ReadyClearsFlagsOnly ==
  [][\A k \in Slots :
       (ops[k].kind = "free" /\ ops'[k].kind = "ready")
       => /\ \A c \in Chats : endingFlags'[ops'[k].t][c] = "none"
          /\ \A t \in Tenants \ {ops'[k].t} : endingFlags'[t] = endingFlags[t]
          /\ UNCHANGED <<clients, clientStates, userStates, detached,
                         registered, sessionData>>
    ]_vars

\* C12: a 'ready' event has been handled for a tenant one of whose chats ended
\* its conversation at messageCount 2: the chat keeps its count and body and
\* has no ending flag, while a chat of another tenant keeps its flag.
C12_Witness ==
  \E k \in Slots :
    /\ ops[k].kind = "ready" /\ ops[k].pc = "done"
    /\ \E c \in Chats :
         /\ userStates[ops[k].t][c].has
         /\ userStates[ops[k].t][c].messageCount = 2
         /\ userStates[ops[k].t][c].lastMessageBody = "B"
         /\ endingFlags[ops[k].t][c] = "none"
    /\ \E t \in Tenants \ {ops[k].t}, c \in Chats : endingFlags[t][c] = "false"

\* C13: a message that is self-sent, or comes from status@broadcast, or finds
\* no client or no ClientState of its tenant in the stores, ends its handler
\* at once: no send, no error, and no change of the stores, of the
\* conversation state or of any UserChatState object.
C13_DroppedMessages ==
  [][\A k \in Slots :
       (/\ ops[k].kind = "free" /\ ops'[k].kind = "msg"
        /\ \/ ops'[k].fromMe
           \/ ops'[k].chat = StatusBroadcast
           \/ clients[ops'[k].t] = NoSess
           \/ clientStates[ops'[k].t] = NoSess)
       => /\ ops'[k].pc = "done"
          /\ ops'[k].out = <<>>
          /\ ops'[k].err = "-"
          /\ UNCHANGED <<clients, clientStates, userStates, endingFlags,
                         detached, registered, sessionData>>
    ]_vars

\* C13: a self-sent message of a chat was ignored while the tenant had a
\* session, and a message for a tenant without session was dropped; neither
\* handler sent anything.
C13_Witness ==
  \E a, b \in Slots :
    /\ ops[a].kind = "msg" /\ ops[a].pc = "done" /\ ops[a].branch = "ignored"
    /\ ops[a].fromMe /\ ops[a].chat \in Chats /\ ops[a].out = <<>>
    /\ ops[b].kind = "msg" /\ ops[b].pc = "done" /\ ops[b].branch = "dropped"
    /\ ~ops[b].fromMe /\ ops[b].chat \in Chats /\ ops[b].out = <<>>
    /\ clients[ops[b].t] = NoSess

\* The handler in slot k gets the answer of the prompt lookup: no row.
NoPromptFound(k) ==
  /\ ops[k].kind = "msg" /\ ops[k].pc = "findPrompt"
  /\ ops'[k].pc = "done" /\ ops'[k].err = "-"

\* C14 as stated: a handler of the start branch that finds no prompt sends
\* nothing and leaves the userStates maps and the ending flags as they are.
C14_NoPromptNoChange ==
  [][\A k \in Slots :
       NoPromptFound(k)
       => /\ ops'[k].out = <<>>
          /\ UNCHANGED <<userStates, endingFlags>>
    ]_vars

\* C14, amended: a handler of the start branch that finds no prompt sends
\* nothing and leaves the ending flags, every other chat's entry and the
\* values of messageCount and lastMessageBody of its chat as they are; its
\* chat has an entry afterwards, which for a chat that had none is a new one
\* of messageCount 0 and lastMessageBody null.
C14_NoPromptKeepsValues ==
  [][\A k \in Slots :
       NoPromptFound(k)
       => LET t == ops[k].t
              c == ops[k].chat
          IN  /\ ops'[k].out = <<>>
              /\ UNCHANGED <<clients, clientStates, endingFlags>>
              /\ Obj(userStates'[t][c]) = Obj(userStates[t][c])
              /\ userStates'[t][c].has
              /\ \A t2 \in Tenants, c2 \in Chats :
                   <<t2, c2>> # <<t, c>> => userStates'[t2][c2] = userStates[t2][c2]
    ]_vars

\* C14: the first message of a chat found no prompt and its handler has
\* returned without a send; the chat has an entry of messageCount 0.
C14_Witness ==
  \E k \in Slots :
    /\ ops[k].kind = "msg" /\ ops[k].pc = "done" /\ ops[k].branch = "start"
    /\ ops[k].row = NoRow /\ ops[k].err = "-" /\ ops[k].out = <<>>
    /\ userStates[ops[k].t][ops[k].chat] = Entry(NewUserChatState)
    /\ endingFlags[ops[k].t][ops[k].chat] = "none"

\* C15: the handler of a 'qr' event of tenant T emits one notification,
\* qrcode.created with T and the event's payload; the handler of a 'ready'
\* event emits one, client.ready with T; and no other invocation emits in
\* that step.
C15_OneNotificationPerEvent ==
  [][\A k \in Slots :
       /\ (ops[k].kind = "free" /\ ops'[k].kind = "qr")
            => /\ ops'[k].notes =
                    <<[event |-> "qrcode.created", enterpriseId |-> ops'[k].t,
                       qr |-> ops'[k].qr]>>
               /\ ops'[k].qr \in QrPayloads
               /\ ops'[k].pc = "done"
               /\ \A j \in Slots \ {k} : ops'[j].notes = ops[j].notes
       /\ (ops[k].kind = "free" /\ ops'[k].kind = "ready")
            => /\ ops'[k].notes =
                    <<[event |-> "client.ready", enterpriseId |-> ops'[k].t,
                       qr |-> "-"]>>
               /\ ops'[k].pc = "done"
               /\ \A j \in Slots \ {k} : ops'[j].notes = ops[j].notes
       /\ ops[k].kind \in {"qr", "ready"}
            => ops'[k].kind = "free" \/ ops'[k].notes = ops[k].notes
    ]_vars

\* C15: a 'qr' event and a 'ready' event of one tenant have been handled,
\* each with its one notification.
C15_Witness ==
  \E a, b \in Slots :
    /\ ops[a].kind = "qr" /\ ops[a].qr = "qr-b"
    /\ ops[a].notes = <<[event |-> "qrcode.created", enterpriseId |-> ops[a].t,
                         qr |-> "qr-b"]>>
    /\ ops[b].kind = "ready" /\ ops[b].t = ops[a].t
    /\ ops[b].notes = <<[event |-> "client.ready", enterpriseId |-> ops[a].t,
                         qr |-> "-"]>>

\* C16 as stated, its last guarantee: an onModuleDestroy that has returned
\* has not raised.
C16_ShutdownNeverRaises ==
  \A k \in Slots :
    (ops[k].kind = "shutdown" /\ ops[k].pc = "done") => ~ops[k].raised

\* The rest of C16: onModuleDestroy calls disconnectClient for every tenant
\* the session store holds at the call, each running to its await of
\* client.destroy(); it gets past Promise.allSettled only when every one of
\* them has returned after its teardown, whatever their errors.
ShutdownWaitsForAll ==
  [][\A k \in Slots :
       /\ (ops[k].kind = "free" /\ ops'[k].kind = "shutdown")
            => /\ ops'[k].targets = {t \in Tenants : clients[t] # NoSess}
               /\ \A t \in ops'[k].targets :
                    \E j \in Slots :
                      /\ ops[j].kind = "free" /\ ops'[j].kind = "disc"
                      /\ ops'[j].parent = k /\ ops'[j].t = t
                      /\ ops'[j].pc = "destroy"
               /\ ops'[k].pc = (IF ops'[k].targets = {} THEN "prismaDisconnect"
                                ELSE "allSettled")
       /\ (ops[k].kind = "shutdown" /\ ops[k].pc = "allSettled"
           /\ ops'[k].pc # "allSettled")
            => /\ \A t \in ops[k].targets :
                    \E j \in Slots :
                      /\ ops[j].parent = k /\ ops[j].t = t /\ ops[j].pc = "done"
                      /\ ops[j].branch = "teardown" /\ ops[j].cleanup
               /\ ops'[k].pc = "prismaDisconnect" /\ ops'[k].err = "-"
    ]_vars

\* With one caller at a time, the stores are empty when onModuleDestroy
\* returns.
ShutdownLeavesNothing ==
  [][\A k \in Slots :
       (ops[k].kind = "shutdown" /\ ops[k].pc # "done" /\ ops'[k].pc = "done")
       => \A t \in Tenants :
            NoSessionOf(clients', clientStates', userStates', endingFlags', t)
    ]_vars

\* C17: a handler that meets an error (a rejected lookup, a rejected reply, a
\* rejected fallback send) does not raise: it returns, or it awaits the one
\* fallback send after a quoting failure; and no handler of a message has
\* ever raised.
C17_HandlerNeverRaises ==
  [][\A k \in Slots :
       /\ ops'[k].kind = "msg" => ~ops'[k].raised
       /\ (ops[k].kind = "msg" /\ ops'[k].kind = "msg" /\ ops'[k].err # ops[k].err)
            => /\ ops'[k].pc \in {"done", "fallback"}
               /\ ops'[k].pc = "fallback" => ops'[k].err = "quoted"
    ]_vars

\* C17: two handlers have returned normally, one after a rejected fallback
\* send, one after a rejected lookup or reply.
C17_Witness ==
  \E a, b \in Slots :
    /\ ops[a].kind = "msg" /\ ops[a].pc = "done" /\ ~ops[a].raised
    /\ ops[a].err = "quoted+fallback"
    /\ ops[b].kind = "msg" /\ ops[b].pc = "done" /\ ~ops[b].raised
    /\ ops[b].err \in {"lookup", "other"}

\* The handler in slot k returns after a send of it was rejected.
FailedSendReturns(k) ==
  /\ ops[k].kind = "msg" /\ ops[k].pc \in {"reply", "fallback"}
  /\ ops[k].row # NoRow
  /\ ops'[k].pc = "done" /\ ops'[k].err # "-"

\* C18: when a handler whose send was rejected after the prompt branch or the
\* match branch updated its state returns, the chat's entry holds the updated
\* values (the row's body, and messageCount 1 after the prompt or the
\* incremented count after a match) and the chat's ending flag is the one the
\* branch set.
C18_NoRollback ==
  [][\A k \in Slots :
       FailedSendReturns(k)
       => LET t == ops[k].t
              chat == ops[k].chat
              row == ops[k].row
              held == HeldState(ops[k], userStates, detached)
          IN  /\ userStates'[t][chat] = Entry(held)
              /\ ops[k].branch = "start"
                   => /\ held = [lastMessageBody |-> PromptRows[row].body,
                                 messageCount |-> 1]
                      /\ endingFlags'[t][chat] = "false"
              /\ ops[k].branch = "trigger"
                   => /\ held.lastMessageBody = MessageRows[row].body
                      /\ held.messageCount > 1
                      /\ endingFlags'[t][chat] =
                           (IF MessageRows[row].ending = "true" THEN "true"
                            ELSE "false")
    ]_vars

\* C18: the reply of a match that ended the conversation was rejected, and
\* the handler has returned: the chat's entry has the incremented count and
\* the reply's body, and its ending flag is true.
C18_Witness ==
  \E k \in Slots :
    /\ ops[k].kind = "msg" /\ ops[k].pc = "done" /\ ops[k].branch = "trigger"
    /\ ops[k].row # NoRow /\ ops[k].err \in {"other", "quoted+fallback"}
    /\ userStates[ops[k].t][ops[k].chat] =
         [has |-> TRUE, lastMessageBody |-> MessageRows[ops[k].row].body,
          messageCount |-> 2]
    /\ endingFlags[ops[k].t][ops[k].chat] = "true"

\* The reply of the handler in slot k is rejected with error e.
ReplyRejected(k, e) ==
  ops[k].kind = "msg" /\ ops[k].pc = "reply" /\ ops'[k].err = e

\* The one fallback: the sends so far, then a plain send of the body of the
\* rejected reply to the same chat.
WithFallback(op) ==
  Append(op.out, [via |-> "sendMessage", to |-> op.chat,
                  body |-> op.out[Len(op.out)].body])

\* C19 as stated: a reply rejected with the quoting failure is followed by
\* one plain send of the same body to the same chat; a rejected fallback is
\* not an error of the handler; any other rejection is followed by no send.
C19_FallbackOnQuotingFailure ==
  [][\A k \in Slots :
       /\ ReplyRejected(k, "quoted")
            => ops'[k].pc = "fallback" /\ ops'[k].out = WithFallback(ops[k])
       /\ ReplyRejected(k, "other")
            => ops'[k].pc = "done" /\ ops'[k].out = ops[k].out
       /\ (ops[k].kind = "msg" /\ ops[k].pc = "fallback" /\ ops'[k].pc # "fallback")
            => /\ ops'[k].pc = "done" /\ ops'[k].out = ops[k].out
               /\ ~ops'[k].raised
    ]_vars

\* C19, amended: a reply rejected with the quoting failure is followed by one
\* plain send to the same chat of the lastMessageBody the handler's state
\* holds at the rejection, and by no send when that is the empty string; with
\* no other handler of the chat in flight that body is the body of the
\* rejected reply; a rejected fallback is not an error of the handler; any
\* other rejection is followed by no send.
C19_FallbackSendsLastBody ==
  [][\A k \in Slots :
       /\ ReplyRejected(k, "quoted")
            => LET b == HeldState(ops[k], userStates, detached).lastMessageBody
               IN  /\ IF b \notin {NullBody, EmptyBody}
                      THEN /\ ops'[k].pc = "fallback"
                           /\ ops'[k].out =
                                Append(ops[k].out, [via |-> "sendMessage",
                                                    to |-> ops[k].chat, body |-> b])
                      ELSE ops'[k].pc = "done" /\ ops'[k].out = ops[k].out
                   /\ (\A j \in Slots \ {k} :
                         ~(ops[j].kind = "msg" /\ ops[j].t = ops[k].t
                           /\ ops[j].chat = ops[k].chat))
                        => b = ops[k].out[Len(ops[k].out)].body
       /\ ReplyRejected(k, "other")
            => ops'[k].pc = "done" /\ ops'[k].out = ops[k].out
       /\ (ops[k].kind = "msg" /\ ops[k].pc = "fallback" /\ ops'[k].pc # "fallback")
            => /\ ops'[k].pc = "done" /\ ops'[k].out = ops[k].out
               /\ ~ops'[k].raised
    ]_vars

\* C19: a handler has returned after its reply was rejected with the quoting
\* failure and its fallback, a plain send of the same body to the same chat,
\* was rejected too.
C19_Witness ==
  \E k \in Slots :
    /\ ops[k].kind = "msg" /\ ops[k].pc = "done" /\ ops[k].err = "quoted+fallback"
    /\ ~ops[k].raised
    /\ ops[k].out = <<[via |-> "reply", to |-> ops[k].chat, body |-> "B"],
                      [via |-> "sendMessage", to |-> ops[k].chat, body |-> "B"]>>

\* C20 as stated: in every reachable state, a chat whose ending flag is true
\* has an entry in its tenant's userStates map with messageCount > 0.
C20_EndingImpliesCounted ==
  \A t \in Tenants, c \in Chats :
    endingFlags[t][c] = "true"
    => userStates[t][c].has /\ userStates[t][c].messageCount > 0

\* The entry of (t, c) in the maps us is one of a positive messageCount.
Counted(us, t, c) == us[t][c].has /\ us[t][c].messageCount > 0

\* C20, amended: the ending flag of a chat becomes true only when a handler
\* of the chat finds a matching reply, and the state object that handler
\* holds then has messageCount > 0: the chat's entry has, if it is that
\* object.  While the flag is true, an entry of positive count is replaced by
\* one of messageCount 0 only at the return of a handler of the same chat
\* (its finally block saving the state object it holds).
C20_EndingSetOnCountedState ==
  [][\A t \in Tenants, c \in Chats :
       /\ (endingFlags[t][c] # "true" /\ endingFlags'[t][c] = "true")
            => \E k \in Slots :
                 /\ ReplyFound(k) /\ ops[k].t = t /\ ops[k].chat = c
                 /\ HeldState(ops'[k], userStates', detached').messageCount > 0
                 /\ ops'[k].us = InStore => Counted(userStates', t, c)
       /\ (/\ endingFlags[t][c] = "true" /\ endingFlags'[t][c] = "true"
           /\ Counted(userStates, t, c) /\ ~Counted(userStates', t, c))
            => \E k \in Slots :
                 /\ ops[k].kind = "msg" /\ ops[k].t = t /\ ops[k].chat = c
                 /\ ops[k].pc # "done" /\ ops'[k].pc = "done"
                 /\ ops[k].us # InStore
    ]_vars

\* C20: a match has ended a chat's conversation and its handler has returned:
\* the ending flag is true and the chat's entry has messageCount 2.
C20_Witness ==
  \E k \in Slots :
    /\ ops[k].kind = "msg" /\ ops[k].pc = "done" /\ ops[k].branch = "trigger"
    /\ ops[k].row # NoRow /\ ops[k].err = "-"
    /\ endingFlags[ops[k].t][ops[k].chat] = "true"
    /\ userStates[ops[k].t][ops[k].chat].has
    /\ userStates[ops[k].t][ops[k].chat].messageCount = 2

\* The tenants a step belongs to: those of the invocations that start, go on
\* or return in it.
StepTenants ==
  {t \in Tenants :
     \E k \in Slots : /\ ops'[k].pc # ops[k].pc \/ ops'[k].kind # ops[k].kind
                      /\ t \in {ops[k].t, ops'[k].t}}

\* The sends made through the clients of tenant t, by invocation.
SendsOf(o, t) == [k \in Slots |-> IF o[k].t = t THEN o[k].out ELSE <<>>]

\* C21: a step of the events and lifecycle operations of some tenants (message
\* handling, qr, ready, termination, initializeClient, disconnectClient, at
\* any of their awaits) leaves the session entry, the conversation state, the
\* ending flags and the credential folder of every other tenant unchanged,
\* and makes no send through a client of another tenant.
C21_TenantIsolation ==
  [][\A t \in Tenants \ StepTenants :
       /\ clients'[t] = clients[t]
       /\ clientStates'[t] = clientStates[t]
       /\ userStates'[t] = userStates[t]
       /\ endingFlags'[t] = endingFlags[t]
       /\ sessionData'[t] = sessionData[t]
       /\ SendsOf(ops', t) = SendsOf(ops, t)
    ]_vars

\* C21: a handler of one tenant is waiting for its send to settle, the chat's
\* state and the session in the stores, while a disconnectClient of the other
\* tenant, past its teardown, is deleting that tenant's folder.
C21_Witness ==
  \E a, b \in Slots :
    /\ ops[a].kind = "msg" /\ ops[a].pc = "reply" /\ ops[a].cs = Current
    /\ clients[ops[a].t] = Current
    /\ userStates[ops[a].t][ops[a].chat].messageCount = 2
    /\ endingFlags[ops[a].t][ops[a].chat] = "true"
    /\ ops[b].kind = "disc" /\ ops[b].pc = "rm" /\ ops[b].t # ops[a].t
    /\ clients[ops[b].t] = NoSess

\* The handler in slot k returns, its clientState still the one in the store,
\* and no other handler of its chat is in flight: it finishes last.
FinishesLast(k) ==
  /\ ops[k].kind = "msg" /\ ops[k].pc \notin {"free", "done"} /\ ops'[k].pc = "done"
  /\ ops[k].cs = Current
  /\ \A j \in Slots \ {k} :
       ~(/\ ops[j].kind = "msg" /\ ops[j].pc # "done"
         /\ ops[j].t = ops[k].t /\ ops[j].chat = ops[k].chat)

\* The handler record op has matched a reply in the trigger branch.
Matched(op) == op.kind = "msg" /\ op.branch = "trigger" /\ op.row # NoRow

\* C22 as stated: when the last of the handlers of a chat returns after a
\* match, the persisted messageCount is the count that handler read at its
\* start plus its own increment, whatever handlers ran beside it.
C22_LastWriteWins ==
  [][\A k \in Slots :
       (FinishesLast(k) /\ Matched(ops[k]))
         => userStates'[ops[k].t][ops[k].chat].messageCount = ops[k].seen + 1
    ]_vars

\* C22, amended: a handler that finds an entry for its chat works on the
\* object the entry holds, one that finds none on a new object of count 0; a
\* match increments the count the object has at that moment, so the
\* increments of handlers sharing the object add up; and a returning handler
\* whose clientState is in the store makes its object the chat's entry, with
\* the values the object has then.
C22_SharedObjectAccumulates ==
  [][\A k \in Slots :
       LET t == ops'[k].t
           chat == ops'[k].chat
       IN
       /\ Arrives(k)
            => /\ userStates[t][chat].has
                    => /\ ops'[k].us = InStore
                       /\ ops'[k].seen = userStates[t][chat].messageCount
               /\ ~userStates[t][chat].has
                    => /\ ops'[k].us >= 1
                       /\ \A j \in Slots \ {k} : ops'[j].us # ops'[k].us
                       /\ detached'[ops'[k].us] = NewUserChatState
                       /\ ops'[k].seen = 0
       /\ ReplyFound(k)
            => /\ HeldState(ops'[k], userStates', detached').messageCount =
                    HeldState(ops[k], userStates, detached).messageCount + 1
               /\ \A j \in Slots :
                    (ops[j].kind = "msg" /\ ops[j].pc # "done"
                     /\ ops[j].us = ops[k].us /\ ops[j].t = ops[k].t
                     /\ ops[j].chat = ops[k].chat)
                    => HeldState(ops'[j], userStates', detached') =
                         HeldState(ops'[k], userStates', detached')
       /\ (ops[k].kind = "msg" /\ ops[k].pc \notin {"free", "done"}
           /\ ops'[k].pc = "done" /\ ops[k].cs = Current)
            => userStates'[ops[k].t][ops[k].chat] =
                 Entry(HeldState(ops[k], userStates, detached))
    ]_vars

\* C22: two handlers of one chat both started on the entry of count 1, both
\* matched and both returned: the persisted count is 3.
C22_Witness ==
  \E a, b \in Slots :
    /\ a # b
    /\ ops[a].pc = "done" /\ ops[b].pc = "done"
    /\ Matched(ops[a]) /\ Matched(ops[b])
    /\ ops[a].t = ops[b].t /\ ops[a].chat = ops[b].chat
    /\ ops[a].seen = 1 /\ ops[b].seen = 1
    /\ ops[a].err = "-" /\ ops[b].err = "-"
    /\ clientStates[ops[a].t] = Current
    /\ userStates[ops[a].t][ops[a].chat].messageCount = 3

\* Slot k takes the 'auth_failure' or 'disconnected' event of a client of t.
Terminated(k) ==
  /\ ops[k].kind = "free" /\ ops'[k].kind = "disc"
  /\ ops'[k].origin \in {"auth_failure", "disconnected"}

\* C23 as stated: at a termination event of tenant T the notification is
\* emitted with T's session and conversation state in the stores, the
\* teardown is pending, and its next step removes both.
C23_NotifiedBeforeRemoval ==
  [][\A k \in Slots :
       LET t == ops'[k].t IN
       /\ Terminated(k)
            => /\ ops'[k].notes = <<DisconnectedNote(t)>>
               /\ clients[t] # NoSess /\ clientStates[t] # NoSess
               /\ UNCHANGED <<clients, clientStates, userStates, endingFlags>>
               /\ ops'[k].pc = "destroy"
       /\ (PastDestroy(k) /\ ops[k].origin \in {"auth_failure", "disconnected"})
            => /\ ops[k].notes = <<DisconnectedNote(t)>>
               /\ NoSessionOf(clients', clientStates', userStates', endingFlags', t)
    ]_vars

\* C23, amended: the handler of a termination event emits client.disconnected
\* first and removes nothing in that step.  If the session store holds a
\* client of T then, T's session and conversation state are in the stores at
\* the notification, the teardown waits for client.destroy(), and its next
\* step removes both.  If it holds none (the event comes from a client that
\* left the store), the notification is emitted all the same and
\* disconnectClient returns at once.
C23_NotifiedThenTornDown ==
  [][\A k \in Slots :
       LET t == ops'[k].t IN
       /\ Terminated(k)
            => /\ ops'[k].notes = <<DisconnectedNote(t)>>
               /\ UNCHANGED <<clients, clientStates, userStates, endingFlags,
                              sessionData>>
               /\ clients[t] # NoSess
                    => /\ clientStates[t] # NoSess
                       /\ ops'[k].pc = "destroy" /\ ops'[k].cl = clients[t]
               /\ clients[t] = NoSess
                    => ops'[k].pc = "done" /\ ops'[k].branch = "notfound"
       /\ (PastDestroy(k) /\ ops[k].origin \in {"auth_failure", "disconnected"})
            => /\ ops[k].notes = <<DisconnectedNote(t)>>
               /\ NoSessionOf(clients', clientStates', userStates', endingFlags', t)
    ]_vars

\* C23: a 'disconnected' event was notified and its teardown is waiting for
\* client.destroy(), the session and a chat's conversation state in the stores.
C23_Witness ==
  \E k \in Slots, c \in Chats :
    /\ ops[k].kind = "disc" /\ ops[k].origin = "disconnected"
    /\ ops[k].pc = "destroy"
    /\ ops[k].notes = <<DisconnectedNote(ops[k].t)>>
    /\ clients[ops[k].t] = Current /\ clientStates[ops[k].t] = Current
    /\ userStates[ops[k].t][c].has /\ userStates[ops[k].t][c].messageCount = 1

\* The invocation in slot k is in deleteSessionData: at rm or in the backoff.
Deleting(op) == op.pc \in {"rm", "sleep"}

LateStep(k) ==
  /\ ops[k].kind = "msg" /\ ops[k].cs = Removed
  /\ ops'[k].pc # ops[k].pc

\* C25: a step of a handler whose tenant was disconnected since it started
\* (the answer of a lookup, the end of a send, its return through finally)
\* leaves the session store and the conversation state table as they are: no
\* entry and no flag appears for the tenant, and the conversation state and
\* the flags of a session started in the meantime are unchanged.
C25_NoResurrection ==
  [][\A k \in Slots :
       LateStep(k)
         => /\ UNCHANGED <<clients, clientStates, userStates, endingFlags>>
            /\ \A j \in Slots \ {k} :
                 (ops[j].kind = "msg" /\ ops[j].pc # "done" /\ ops[j].cs = Current)
                   => HeldState(ops'[j], userStates', detached') =
                        HeldState(ops[j], userStates, detached)
    ]_vars

\* C25: a handler that matched a reply is waiting for its send, its tenant
\* disconnected since and started again, and the chat has an entry of the
\* new session that differs from the handler's state.
C25_Witness ==
  \E k \in Slots :
    /\ ops[k].kind = "msg" /\ ops[k].pc = "reply" /\ ops[k].cs = Removed
    /\ Matched(ops[k])
    /\ clients[ops[k].t] = Current /\ clientStates[ops[k].t] = Current
    /\ userStates[ops[k].t][ops[k].chat].has
    /\ userStates[ops[k].t][ops[k].chat].messageCount = 1
    /\ HeldState(ops[k], userStates, detached).messageCount = 2

\* The call in slot k, suspended at client.initialize() or client.destroy(),
\* goes on, its own client out of the store and a newer session of its tenant
\* in.
ResumesBesideNewer(k) ==
  /\ ops[k].pc \in {"initialize", "destroy"} /\ ops'[k].pc # ops[k].pc
  /\ ops[k].cl > Current
  /\ clients[ops[k].t] = Current

\* C26 as stated: the cleanup of an initializeClient or a disconnectClient
\* whose own session was torn down while it was suspended leaves the newer
\* session of the tenant and its conversation state alone and starts no
\* deletion of the tenant's credential folder.
C26_CleanupSparesNewerSession ==
  [][\A k \in Slots :
       ResumesBesideNewer(k)
         => /\ UNCHANGED <<clients, clientStates, userStates, endingFlags,
                           sessionData>>
            /\ ops'[k].pc # "rm"
    ]_vars

\* C27: between the steps of the operations, a tenant is a key of the session
\* store if and only if it is a key of the conversation-state container map.
C27_SameKeys ==
  \A t \in Tenants : (clients[t] # NoSess) <=> (clientStates[t] # NoSess)

\* C27: a tenant is in both maps again while the teardown that removed it from
\* both is still deleting its folder, and another tenant is in neither.
C27_Witness ==
  \E k \in Slots, t2 \in Tenants :
    /\ ops[k].kind = "disc" /\ ops[k].pc \in {"rm", "sleep"}
    /\ clients[ops[k].t] = Current /\ clientStates[ops[k].t] = Current
    /\ clients[t2] = NoSess /\ clientStates[t2] = NoSess

\* A UserChatState that has left the initial count has a body recorded.
BodyRecorded(obj) == obj.messageCount >= 1 => obj.lastMessageBody # NullBody

\* C28: every entry of a userStates map with messageCount >= 1 has a
\* lastMessageBody that is not null, and so has the object of every handler
\* in flight; hence a handler of the trigger branch that finds no reply and
\* sends nothing holds the empty string as lastMessageBody.
C28_CountedHasBody ==
  /\ [](/\ \A t \in Tenants, c \in Chats :
             userStates[t][c].has => BodyRecorded(userStates[t][c])
        /\ \A k \in Slots :
             (ops[k].kind = "msg" /\ ops[k].pc # "done")
               => BodyRecorded(HeldState(ops[k], userStates, detached)))
  /\ [][\A k \in Slots :
          (NoReplyFound(k) /\ ops'[k].pc = "done")
            => /\ ops'[k].out = <<>>
               /\ HeldState(ops[k], userStates, detached).lastMessageBody = EmptyBody
               /\ HeldState(ops[k], userStates, detached).messageCount >= 1
     ]_vars

\* C28: a handler of the trigger branch found no reply and returned without
\* sending, and the chat's entry has count 1 and the empty string as body.
C28_Witness ==
  \E k \in Slots :
    /\ ops[k].kind = "msg" /\ ops[k].pc = "done" /\ ops[k].branch = "trigger"
    /\ ops[k].row = NoRow /\ ops[k].err = "-" /\ ops[k].out = <<>>
    /\ userStates[ops[k].t][ops[k].chat].has
    /\ userStates[ops[k].t][ops[k].chat].messageCount = 1
    /\ userStates[ops[k].t][ops[k].chat].lastMessageBody = EmptyBody

====
